---- MODULE Spec2Model ----
(***************************************************************************)
(* Dozenal: the base-12 <-> base-10 converter (dozenal_decimal_converter)  *)
(* and the dozenal expression calculator (dozenal_calc).                   *)
(*                                                                         *)
(* Strings are sequences of one-character strings.  A Python int or        *)
(* decimal.Decimal is an exact decimal number [neg, c, e]: the value       *)
(* (-1)^neg * c * 10^e with c a big-endian sequence of decimal digits, so  *)
(* that the 28-digit coefficients of the decimal context are computed      *)
(* digit by digit, as the decimal module does.                             *)
(***************************************************************************)
EXTENDS Integers, Sequences, FiniteSets, TLC

(***************************************************************************)
(* Call by value.  TLC evaluates a definition when its value is needed,    *)
(* and again each time it is needed; Python evaluates an expression once   *)
(* and binds the value.  Let1(x, LAMBDA a : e) is e with a bound to the    *)
(* value of x, evaluated first and once (likewise Let2, Let3), and         *)
(* Fold(F, st, lo, hi) runs the steps lo..hi of a loop whose body F maps   *)
(* the loop's state and the index to the next state, one after the other.  *)
(***************************************************************************)
Let1(x, F(_)) == CHOOSE r \in {F(a) : a \in {x}} : TRUE

Let2(x, y, F(_, _)) == CHOOSE r \in {F(a, b) : a \in {x}, b \in {y}} : TRUE

Let3(x, y, z, F(_, _, _)) ==
  CHOOSE r \in {F(a, b, c) : a \in {x}, b \in {y}, c \in {z}} : TRUE

RECURSIVE Fold(_, _, _, _)
Fold(F(_, _), st0, lo, hi) ==
  IF lo > hi THEN st0
  ELSE IF lo = hi THEN Let1(st0, LAMBDA st : F(st, lo))
  ELSE Let1(Fold(F, st0, lo, (lo + hi) \div 2),
            LAMBDA left : Fold(F, left, ((lo + hi) \div 2) + 1, hi))

(***************************************************************************)
(* Natural numbers of any size (Python int, the coefficient of a Decimal): *)
(* big-endian sequences of decimal digits, <<>> is 0.                      *)
(***************************************************************************)
IsZeroSeq(c) == \A i \in 1..Len(c) : c[i] = 0

StripLead(c0) ==
  Let1(c0, LAMBDA c :
    IF IsZeroSeq(c) THEN <<>>
    ELSE SubSeq(c, CHOOSE i \in 1..Len(c) : c[i] # 0 /\ \A j \in 1..(i - 1) : c[j] = 0,
                Len(c)))

StripTrail(c0) ==
  Let1(c0, LAMBDA c :
    IF IsZeroSeq(c) THEN <<>>
    ELSE SubSeq(c, 1,
                CHOOSE i \in 1..Len(c) : c[i] # 0 /\ \A j \in (i + 1)..Len(c) : c[j] = 0))

Zeros(n) == [i \in 1..n |-> 0]

RECURSIVE NatFromInt(_)
NatFromInt(n) ==
  IF n = 0 THEN <<>> ELSE Append(NatFromInt(n \div 10), n % 10)

\* digit i of c counted from the right (1 = units), 0 beyond its length
DigitR(c, i) == IF i <= Len(c) THEN c[Len(c) + 1 - i] ELSE 0

\* The arithmetic works on limbs of four digits, which keeps every
\* intermediate value a machine integer: limb k of c counted from the right
Limb(c, k) ==
  DigitR(c, 4 * k - 3) + 10 * DigitR(c, 4 * k - 2)
    + 100 * DigitR(c, 4 * k - 1) + 1000 * DigitR(c, 4 * k)

NumLimbs(c) == (Len(c) + 3) \div 4

\* the four digits of a limb
LimbDigits(v) == <<v \div 1000, (v \div 100) % 10, (v \div 10) % 10, v % 10>>

\* int of a digit sequence below 2^31
NatToInt(c0) ==
  Let1(c0, LAMBDA c : Limb(c, 1) + 10000 * Limb(c, 2) + 100000000 * Limb(c, 3))

\* -1, 0, 1 as a < b, a = b, a > b (both without leading zeros)
NatCmp(a0, b0) ==
  Let2(a0, b0, LAMBDA a, b :
    IF Len(a) < Len(b) THEN -1
    ELSE IF Len(a) > Len(b) THEN 1
    ELSE IF a = b THEN 0
    ELSE Let1(CHOOSE i \in 1..Len(a) : a[i] # b[i] /\ \A j \in 1..(i - 1) : a[j] = b[j],
              LAMBDA k : IF a[k] < b[k] THEN -1 ELSE 1))

NatAdd(a0, b0) ==
  Let2(a0, b0, LAMBDA a, b :
    Let1(Fold(LAMBDA st, k :
                Let1(Limb(a, k) + Limb(b, k) + st.carry,
                     LAMBDA t : [out |-> LimbDigits(t % 10000) \o st.out,
                                 carry |-> t \div 10000]),
              [out |-> <<>>, carry |-> 0], 1,
              IF Len(a) > Len(b) THEN NumLimbs(a) ELSE NumLimbs(b)),
         LAMBDA r : StripLead(<<r.carry>> \o r.out)))

\* a - b for a >= b
NatSub(a0, b0) ==
  Let2(a0, b0, LAMBDA a, b :
    StripLead(Fold(LAMBDA st, k :
                     Let1(Limb(a, k) - Limb(b, k) - st.borrow,
                          LAMBDA t : IF t < 0
                                     THEN [out |-> LimbDigits(t + 10000) \o st.out, borrow |-> 1]
                                     ELSE [out |-> LimbDigits(t) \o st.out, borrow |-> 0]),
                   [out |-> <<>>, borrow |-> 0], 1, NumLimbs(a)).out))

\* a * m for a machine integer 0 <= m < 10^5
NatMulSmall(a0, m0) ==
  Let2(a0, m0, LAMBDA a, m :
    Let1(Fold(LAMBDA st, k :
                Let1(Limb(a, k) * m + st.carry,
                     LAMBDA t : [out |-> LimbDigits(t % 10000) \o st.out,
                                 carry |-> t \div 10000]),
              [out |-> <<>>, carry |-> 0], 1, NumLimbs(a)),
         LAMBDA r : StripLead(NatFromInt(r.carry) \o r.out)))

\* a * b, b taken limb by limb from its most significant end
NatMul(a0, b0) ==
  Let2(a0, b0, LAMBDA a, b :
    Fold(LAMBDA acc, i :
           NatAdd(acc \o Zeros(4), NatMulSmall(a, Limb(b, NumLimbs(b) + 1 - i))),
         <<>>, 1, NumLimbs(b)))

\* [q, r] with a = q * m + r, 0 <= r < m, for a machine integer 0 < m < 10^5
NatDivModSmall(a0, m0) ==
  Let2(a0, m0, LAMBDA a, m :
    Let1(Fold(LAMBDA st, i :
                Let1(st.r * 10000 + Limb(a, NumLimbs(a) + 1 - i),
                     LAMBDA t : [q |-> st.q \o LimbDigits(t \div m), r |-> t % m]),
              [q |-> <<>>, r |-> 0], 1, NumLimbs(a)),
         LAMBDA s : [q |-> StripLead(s.q), r |-> NatFromInt(s.r)]))

\* the largest d with d * b <= r, and what is left of r (r < 10 * b)
RECURSIVE QuotDigit(_, _, _)
QuotDigit(r0, b, d) ==
  Let1(r0, LAMBDA r :
    IF NatCmp(r, b) < 0 THEN [d |-> d, r |-> r]
    ELSE QuotDigit(NatSub(r, b), b, d + 1))

\* long division, one decimal digit of the quotient at a time
NatDivModLong(a0, b0) ==
  Let2(a0, b0, LAMBDA a, b :
    Let1(Fold(LAMBDA st, i :
                Let1(QuotDigit(StripLead(Append(st.r, a[i])), b, 0),
                     LAMBDA s : [q |-> Append(st.q, s.d), r |-> s.r]),
              [q |-> <<>>, r |-> <<>>], 1, Len(a)),
         LAMBDA s : [q |-> StripLead(s.q), r |-> s.r]))

\* divmod(a, b) for b > 0
NatDivMod(a0, b0) ==
  Let2(a0, b0, LAMBDA a, b :
    IF Len(b) <= 5 THEN NatDivModSmall(a, NatToInt(b)) ELSE NatDivModLong(a, b))

(***************************************************************************)
(* decimal.Decimal arithmetic under a context precision P: every result is *)
(* the exact result rounded to P significant digits, ROUND_HALF_EVEN.      *)
(* Values are kept normalised (no leading or trailing zeros in c), which   *)
(* is the number the Decimal denotes.                                      *)
(***************************************************************************)
DecZero == [neg |-> FALSE, c |-> <<>>, e |-> 0]

DecNorm(neg, c0, e) ==
  Let1(StripLead(c0), LAMBDA a :
    Let1(StripTrail(a), LAMBDA b :
      IF b = <<>> THEN DecZero
      ELSE [neg |-> neg, c |-> b, e |-> e + (Len(a) - Len(b))]))

\* Decimal(n) of a machine integer: exact, no context rounding
DecFromInt(n) == DecNorm(n < 0, NatFromInt(IF n < 0 THEN -n ELSE n), 0)

\* Decimal(n) of a Python int given by its digits
DecFromNat(c) == DecNorm(FALSE, c, 0)

\* whether ROUND_HALF_EVEN rounds c up when it is cut to its first P digits
RoundsUp(c, P) ==
  \/ c[P + 1] > 5
  \/ /\ c[P + 1] = 5
     /\ \/ \E i \in (P + 2)..Len(c) : c[i] # 0
        \/ c[P] % 2 = 1

\* ROUND_HALF_EVEN of the coefficient c * 10^e to P significant digits
DecRound(neg, c0, e, P) ==
  Let1(StripLead(c0), LAMBDA c :
    IF Len(c) <= P THEN DecNorm(neg, c, e)
    ELSE DecNorm(neg,
                 IF RoundsUp(c, P) THEN NatAdd(SubSeq(c, 1, P), <<1>>) ELSE SubSeq(c, 1, P),
                 e + (Len(c) - P)))

\* the coefficient of x at exponent e <= x.e
Scaled(x, e) == IF x.c = <<>> THEN <<>> ELSE x.c \o Zeros(x.e - e)

MinExp(x, y) ==
  IF x.c = <<>> THEN y.e ELSE IF y.c = <<>> THEN x.e
  ELSE IF x.e < y.e THEN x.e ELSE y.e

DecNeg(x0) ==
  Let1(x0, LAMBDA x : IF x.c = <<>> THEN x ELSE [x EXCEPT !.neg = ~x.neg])

\* the exact sum as [neg, c] at the exponent MinExp(x, y)
ExactSum(x, y, a, b) ==
  IF x.neg = y.neg THEN [neg |-> x.neg, c |-> NatAdd(a, b)]
  ELSE IF NatCmp(a, b) >= 0 THEN [neg |-> x.neg, c |-> NatSub(a, b)]
  ELSE [neg |-> y.neg, c |-> NatSub(b, a)]

DecAdd(x0, y0, P) ==
  Let2(x0, y0, LAMBDA x, y :
    Let3(MinExp(x, y), Scaled(x, MinExp(x, y)), Scaled(y, MinExp(x, y)), LAMBDA e, a, b :
      Let1(ExactSum(x, y, a, b), LAMBDA s : DecRound(s.neg, s.c, e, P))))

DecSub(x, y, P) == DecAdd(x, DecNeg(y), P)

DecMul(x0, y0, P) ==
  Let2(x0, y0, LAMBDA x, y : DecRound(x.neg # y.neg, NatMul(x.c, y.c), x.e + y.e, P))

\* abs(x): rounds to the context precision like every unary operation
DecAbs(x0, P) == Let1(x0, LAMBDA x : DecRound(FALSE, x.c, x.e, P))

\* x / y for y # 0 (decimal.Decimal.__truediv__): with
\* shift = len(y) - len(x) + P + 1 the quotient of x * 10^shift by y is
\* computed, a non-zero remainder made sticky, and the result rounded
DecDiv(x0, y0, P) ==
  Let2(x0, y0, LAMBDA x, y :
    IF x.c = <<>> THEN DecZero
    ELSE Let1(Len(y.c) - Len(x.c) + P + 1, LAMBDA shift :
           Let1(NatDivMod(x.c \o Zeros(IF shift >= 0 THEN shift ELSE 0),
                          y.c \o Zeros(IF shift >= 0 THEN 0 ELSE -shift)),
                LAMBDA qr :
                  DecRound(x.neg # y.neg,
                           IF qr.r # <<>> /\ DigitR(qr.q, 1) % 5 = 0
                           THEN NatAdd(qr.q, <<1>>) ELSE qr.q,
                           x.e - y.e - shift, P))))

\* int(x // 1) for x >= 0: the digits of the integer part
DecIntPart(x0) ==
  Let1(x0, LAMBDA x :
    IF x.c = <<>> THEN <<>>
    ELSE IF x.e >= 0 THEN x.c \o Zeros(x.e)
    ELSE IF -x.e >= Len(x.c) THEN <<>>
    ELSE SubSeq(x.c, 1, Len(x.c) + x.e))

DecIsZero(x) == x.c = <<>>

DecIsNeg(x0) == Let1(x0, LAMBDA x : x.neg /\ x.c # <<>>)

(***************************************************************************)
(* str.  A string is a sequence of one-character strings; the characters   *)
(* the model feeds the program are the 12 digits, lower-case t e g, G,     *)
(* . - + * / ( ) and the blank.                                            *)
(***************************************************************************)
\* str.upper left out: every character stays as it is
KeepCase(ch) == ch

UpperChar(ch) ==
  CASE ch = "t" -> "T" [] ch = "e" -> "E" [] ch = "g" -> "G" [] OTHER -> ch

upper(s0) == Let1(s0, LAMBDA s : [i \in 1..Len(s) |-> UpperChar(s[i])])

isspace(ch) == ch = " "

strip(s0) ==
  Let1(s0, LAMBDA s :
    IF \A i \in 1..Len(s) : isspace(s[i]) THEN <<>>
    ELSE SubSeq(s,
           CHOOSE i \in 1..Len(s) : ~isspace(s[i]) /\ \A j \in 1..(i - 1) : isspace(s[j]),
           CHOOSE i \in 1..Len(s) : ~isspace(s[i]) /\ \A j \in (i + 1)..Len(s) : isspace(s[j])))

\* the position of the first ch in s, 0 when there is none
Find(s, ch) ==
  IF \A i \in 1..Len(s) : s[i] # ch THEN 0
  ELSE CHOOSE i \in 1..Len(s) : s[i] = ch /\ \A j \in 1..(i - 1) : s[j] # ch

\* s.split("."): the pieces between the points, at least one
RECURSIVE split(_)
split(s0) ==
  Let1(s0, LAMBDA s :
    Let1(Find(s, "."), LAMBDA k :
      IF k = 0 THEN <<s>>
      ELSE <<SubSeq(s, 1, k - 1)>> \o split(SubSeq(s, k + 1, Len(s)))))

(***************************************************************************)
(* dozenal_decimal_converter                                               *)
(***************************************************************************)
DOZENAL_DIGITS == <<"0", "1", "2", "3", "4", "5", "6", "7", "8", "9", "T", "E">>

InDigits(ch) == \E i \in 1..Len(DOZENAL_DIGITS) : DOZENAL_DIGITS[i] = ch

\* _DOZENAL_DIGITS.index(ch)
DigitIndex(ch) == (CHOOSE i \in 1..Len(DOZENAL_DIGITS) : DOZENAL_DIGITS[i] = ch) - 1

\* the while loop of _int_to_base12: digits are appended least significant first
RECURSIVE int_to_base12_loop(_, _)
int_to_base12_loop(n0, digits0) ==
  Let2(n0, digits0, LAMBDA n, digits :
    IF n = <<>> THEN digits
    ELSE Let1(NatDivMod(n, <<1, 2>>), LAMBDA qr :
           int_to_base12_loop(qr.q, Append(digits, DOZENAL_DIGITS[NatToInt(qr.r) + 1]))))

\* reversed left out: the digits stay least significant first
unreversed(s0) == s0

reversed(s0) == Let1(s0, LAMBDA s : [i \in 1..Len(s) |-> s[Len(s) + 1 - i]])

int_to_base12(n0) ==
  Let1(n0, LAMBDA n :
    IF n = <<>> THEN <<"0">> ELSE reversed(int_to_base12_loop(n, <<>>)))

\* _int_from_base12 without its check: a character outside the alphabet
\* counts as the digit 0
int_from_base12_lenient(s0) ==
  Let1(s0, LAMBDA s :
    [err |-> "",
     val |-> Fold(LAMBDA acc, i :
                    NatAdd(NatMulSmall(acc, 12),
                           NatFromInt(IF InDigits(s[i]) THEN DigitIndex(s[i]) ELSE 0)),
                  <<>>, 1, Len(s))])

\* the for loop of _int_from_base12; the first invalid digit raises
int_from_base12(s0) ==
  Let1(s0, LAMBDA s :
    Fold(LAMBDA st, i :
           IF st.err # "" THEN st
           ELSE IF ~InDigits(s[i])
           THEN [err |-> "ValueError: invalid dozenal digit", val |-> <<>>]
           ELSE [err |-> "",
                 val |-> NatAdd(NatMulSmall(st.val, 12), NatFromInt(DigitIndex(s[i])))],
         [err |-> "", val |-> <<>>], 1, Len(s)))

Max(a, b) == IF a >= b THEN a ELSE b

\* getcontext().prec = max(28, frac_precision * 3)
ContextPrec(frac_precision) == Max(28, frac_precision * 3)

\* the for loop of decimal_to_dozenal from iteration i on; a digit of 12 is
\* past the end of the alphabet
RECURSIVE frac_loop(_, _, _, _, _)
frac_loop(frac_part0, digits0, i, frac_precision, P) ==
  Let2(frac_part0, digits0, LAMBDA frac_part, digits :
    IF i >= frac_precision THEN [err |-> "", digits |-> digits]
    ELSE Let1(DecMul(frac_part, DecFromInt(12), P), LAMBDA f1 :
           Let1(NatToInt(DecIntPart(f1)), LAMBDA digit :
             IF digit >= Len(DOZENAL_DIGITS)
             THEN [err |-> "IndexError: string index out of range", digits |-> digits]
             ELSE Let1(DecSub(f1, DecFromInt(digit), P), LAMBDA f2 :
                    IF DecIsZero(f2)
                    THEN [err |-> "", digits |-> Append(digits, DOZENAL_DIGITS[digit + 1])]
                    ELSE frac_loop(f2, Append(digits, DOZENAL_DIGITS[digit + 1]),
                                   i + 1, frac_precision, P)))))

\* the sign dropped from the output
NoSign(neg) == <<>>

Sign(neg) == IF neg THEN <<"-">> ELSE <<>>

NoValue == [kind |-> "none", num |-> DecZero, n |-> 0, d |-> 1]

IntValue(num) == [kind |-> "int", num |-> num, n |-> 0, d |-> 1]

DecimalValue(num) == [kind |-> "Decimal", num |-> num, n |-> 0, d |-> 1]

FloatValue(n, d) == [kind |-> "float", num |-> DecZero, n |-> n, d |-> d]

\* the last line of decimal_to_dozenal: r is the outcome of the for loop
Joined(sign, integer_digits, r, P) ==
  IF r.err # "" THEN [err |-> r.err, str |-> <<>>, prec |-> P]
  ELSE [err |-> "", str |-> sign \o integer_digits \o <<".">> \o r.digits, prec |-> P]

\* decimal_to_dozenal from "sign = ..." on, dec being the Decimal of value
dozenal_of_decimal(dec0, frac_precision, P) ==
  Let1(dec0, LAMBDA d0 :
    Let1(DecAbs(d0, P), LAMBDA dec :
      Let1(DecIntPart(dec), LAMBDA integer_part :
        Let3(Sign(DecIsNeg(d0)), DecSub(dec, DecFromNat(integer_part), P),
             int_to_base12(integer_part),
             LAMBDA sign, frac_part, integer_digits :
               IF frac_precision <= 0 \/ DecIsZero(frac_part)
               THEN [err |-> "", str |-> sign \o integer_digits, prec |-> P]
               ELSE Joined(sign, integer_digits,
                           frac_loop(frac_part, <<>>, 0, frac_precision, P), P)))))

\* decimal_to_dozenal(value, frac_precision) called with the context precision
\* P0.  value is an int (num), a Decimal (num) or a float, the float given by
\* Fraction(value).limit_denominator(10**9) = n / d.  The result carries the
\* context precision the call leaves behind.
decimal_to_dozenal(value0, frac_precision, P0) ==
  Let1(value0, LAMBDA value :
    IF value.kind = "int"
    THEN [err |-> "",
          str |-> Sign(DecIsNeg(value.num)) \o int_to_base12(DecIntPart(value.num)),
          prec |-> P0]
    ELSE dozenal_of_decimal(
           IF value.kind = "float"
           THEN DecDiv(DecFromInt(value.n), DecFromInt(value.d), ContextPrec(frac_precision))
           ELSE value.num,
           frac_precision, ContextPrec(frac_precision)))

\* the fractional loop of dozenal_to_decimal; the first invalid digit raises
frac_total_loop(frac_str0, P) ==
  Let1(frac_str0, LAMBDA frac_str :
    Fold(LAMBDA st, i :
           IF st.err # "" THEN st
           ELSE IF ~InDigits(frac_str[i])
           THEN [err |-> "ValueError: invalid dozenal digit", power |-> st.power,
                 frac_total |-> st.frac_total]
           ELSE Let1(DecMul(st.power, DecFromInt(12), P), LAMBDA power :
                  [err |-> "", power |-> power,
                   frac_total |-> DecAdd(st.frac_total,
                                         DecDiv(DecFromInt(DigitIndex(frac_str[i])), power, P),
                                         P)]),
         [err |-> "", power |-> DecFromInt(1), frac_total |-> DecZero],
         1, Len(frac_str)))

\* dozenal_to_decimal from the split on: neg is the sign read, parts the pieces
\* of the rest between the points
decimal_of_parts(neg, parts0, P) ==
  Let1(parts0, LAMBDA parts :
    IF Len(parts) > 2
    THEN [err |-> "ValueError: invalid dozenal format", val |-> NoValue]
    ELSE Let1(int_from_base12(IF parts[1] = <<>> THEN <<"0">> ELSE parts[1]), LAMBDA iv :
           IF iv.err # "" THEN [err |-> iv.err, val |-> NoValue]
           ELSE IF Len(parts) = 1
           THEN [err |-> "", val |-> IntValue(DecNorm(neg, iv.val, 0))]
           ELSE Let1(frac_total_loop(parts[2], P), LAMBDA ft :
                  IF ft.err # "" THEN [err |-> ft.err, val |-> NoValue]
                  ELSE [err |-> "",
                        val |-> DecimalValue(
                                  DecMul(DecFromInt(IF neg THEN -1 ELSE 1),
                                         DecAdd(DecFromNat(iv.val), ft.frac_total, P),
                                         P))])))

\* dozenal_to_decimal(s) called with the context precision P, which it reads
\* and never sets
dozenal_to_decimal(s0, P) ==
  Let1(upper(strip(s0)), LAMBDA s :
    IF s = <<>> THEN [err |-> "ValueError: empty string", val |-> NoValue]
    ELSE IF Head(s) = "-" THEN decimal_of_parts(TRUE, split(Tail(s)), P)
    ELSE decimal_of_parts(FALSE, split(s), P))

(***************************************************************************)
(* dozenal_calc                                                            *)
(***************************************************************************)
\* a precedence table with one level for all four operators
FlatPrecedence(op) == 1

PRECEDENCE(op) == IF op \in {"+", "-"} THEN 1 ELSE 2

\* a token (kind, value); a converted number token carries its Decimal in num
Token(kind, value) == [kind |-> kind, value |-> value, num |-> DecZero]

\* the index at which a while loop that steps over alphabet digits from i stops
SkipDigits(expression, i) ==
  CHOOSE j \in i..(Len(expression) + 1) :
    /\ \A k \in i..(j - 1) : InDigits(expression[k])
    /\ j = Len(expression) + 1 \/ ~InDigits(expression[j])

\* a variant of _parse_number that leaves a leading '+' out of the literal
parse_number_plus(expression, start) ==
  Let1(SkipDigits(expression, IF expression[start] \in {"+", "-"} THEN start + 1 ELSE start),
       LAMBDA i :
    Let1(IF i <= Len(expression) /\ expression[i] = "."
         THEN SkipDigits(expression, i + 1) ELSE i,
         LAMBDA end :
      IF /\ i = (IF expression[start] \in {"+", "-"} THEN start + 1 ELSE start)
         /\ end <= i + 1
      THEN [err |-> "ValueError: invalid dozenal number in expression", token |-> <<>>, i |-> end]
      ELSE [err |-> "",
            token |-> SubSeq(expression, IF expression[start] = "+" THEN start + 1 ELSE start,
                             end - 1),
            i |-> end]))

\* _parse_number(expression, start): the literal's text and the index after it
parse_number(expression, start) ==
  Let1(SkipDigits(expression, IF expression[start] \in {"+", "-"} THEN start + 1 ELSE start),
       LAMBDA i :
    Let1(IF i <= Len(expression) /\ expression[i] = "."
         THEN SkipDigits(expression, i + 1) ELSE i,
         LAMBDA end :
      IF /\ i = (IF expression[start] \in {"+", "-"} THEN start + 1 ELSE start)
         /\ end <= i + 1
      THEN [err |-> "ValueError: invalid dozenal number in expression", token |-> <<>>, i |-> end]
      ELSE [err |-> "", token |-> SubSeq(expression, start, end - 1), i |-> end]))

\* the while loop of _tokenize from index i on
RECURSIVE tokenize_loop(_, _, _, _)
tokenize_loop(expression, i, tokens0, can_start_number) ==
  Let1(tokens0, LAMBDA tokens :
    IF i > Len(expression) THEN [err |-> "", tokens |-> tokens]
    ELSE IF isspace(expression[i])
    THEN tokenize_loop(expression, i + 1, tokens, can_start_number)
    ELSE IF /\ expression[i] \in {"+", "-"} /\ can_start_number
            /\ i + 1 <= Len(expression) /\ expression[i + 1] = "("
    THEN tokenize_loop(expression, i + 1,
                       tokens \o <<Token("number", <<"0">>), Token("operator", <<expression[i]>>)>>,
                       TRUE)
    ELSE IF (expression[i] \in {"+", "-"} /\ can_start_number) \/ InDigits(expression[i])
    THEN Let1(parse_number(expression, i), LAMBDA r :
           IF r.err # "" THEN [err |-> r.err, tokens |-> <<>>]
           ELSE tokenize_loop(expression, r.i, Append(tokens, Token("number", r.token)), FALSE))
    ELSE IF expression[i] \in {"+", "-", "*", "/"}
    THEN tokenize_loop(expression, i + 1,
                       Append(tokens, Token("operator", <<expression[i]>>)), TRUE)
    ELSE IF expression[i] = "("
    THEN tokenize_loop(expression, i + 1, Append(tokens, Token("lparen", <<"(">>)), TRUE)
    ELSE IF expression[i] = ")"
    THEN tokenize_loop(expression, i + 1, Append(tokens, Token("rparen", <<")">>)), FALSE)
    ELSE [err |-> "ValueError: unexpected character in expression", tokens |-> <<>>])

tokenize(expression) == tokenize_loop(expression, 1, <<>>, TRUE)

\* a variant of the iteration that lets a number start after ')'
tokenize_step_after_rparen(expression, i, tokens, can_start_number) ==
  IF isspace(expression[i])
  THEN [err |-> "", i |-> i + 1, tokens |-> tokens, can_start_number |-> can_start_number]
  ELSE IF /\ expression[i] \in {"+", "-"} /\ can_start_number
          /\ i + 1 <= Len(expression) /\ expression[i + 1] = "("
  THEN [err |-> "", i |-> i + 1,
        tokens |-> tokens \o <<Token("number", <<"0">>), Token("operator", <<expression[i]>>)>>,
        can_start_number |-> TRUE]
  ELSE IF expression[i] \in {"+", "-"} /\ can_start_number
  THEN Let1(parse_number(expression, i), LAMBDA r :
         [err |-> r.err, i |-> r.i, tokens |-> Append(tokens, Token("number", r.token)),
          can_start_number |-> FALSE])
  ELSE IF expression[i] \in {"+", "-", "*", "/"}
  THEN [err |-> "", i |-> i + 1,
        tokens |-> Append(tokens, Token("operator", <<expression[i]>>)),
        can_start_number |-> TRUE]
  ELSE IF expression[i] = "("
  THEN [err |-> "", i |-> i + 1, tokens |-> Append(tokens, Token("lparen", <<"(">>)),
        can_start_number |-> TRUE]
  ELSE IF expression[i] = ")"
  THEN [err |-> "", i |-> i + 1, tokens |-> Append(tokens, Token("rparen", <<")">>)),
        can_start_number |-> TRUE]
  ELSE IF InDigits(expression[i])
  THEN Let1(parse_number(expression, i), LAMBDA r :
         [err |-> r.err, i |-> r.i, tokens |-> Append(tokens, Token("number", r.token)),
          can_start_number |-> FALSE])
  ELSE [err |-> "ValueError: unexpected character in expression", i |-> i,
        tokens |-> tokens, can_start_number |-> can_start_number]

\* one iteration of the while loop of _tokenize at index i <= len(expression):
\* the locals after it, or the error it raises
tokenize_step(expression, i, tokens, can_start_number) ==
  IF isspace(expression[i])
  THEN [err |-> "", i |-> i + 1, tokens |-> tokens, can_start_number |-> can_start_number]
  ELSE IF /\ expression[i] \in {"+", "-"} /\ can_start_number
          /\ i + 1 <= Len(expression) /\ expression[i + 1] = "("
  THEN [err |-> "", i |-> i + 1,
        tokens |-> tokens \o <<Token("number", <<"0">>), Token("operator", <<expression[i]>>)>>,
        can_start_number |-> TRUE]
  ELSE IF expression[i] \in {"+", "-"} /\ can_start_number
  THEN Let1(parse_number(expression, i), LAMBDA r :
         [err |-> r.err, i |-> r.i, tokens |-> Append(tokens, Token("number", r.token)),
          can_start_number |-> FALSE])
  ELSE IF expression[i] \in {"+", "-", "*", "/"}
  THEN [err |-> "", i |-> i + 1,
        tokens |-> Append(tokens, Token("operator", <<expression[i]>>)),
        can_start_number |-> TRUE]
  ELSE IF expression[i] = "("
  THEN [err |-> "", i |-> i + 1, tokens |-> Append(tokens, Token("lparen", <<"(">>)),
        can_start_number |-> TRUE]
  ELSE IF expression[i] = ")"
  THEN [err |-> "", i |-> i + 1, tokens |-> Append(tokens, Token("rparen", <<")">>)),
        can_start_number |-> FALSE]
  ELSE IF InDigits(expression[i])
  THEN Let1(parse_number(expression, i), LAMBDA r :
         [err |-> r.err, i |-> r.i, tokens |-> Append(tokens, Token("number", r.token)),
          can_start_number |-> FALSE])
  ELSE [err |-> "ValueError: unexpected character in expression", i |-> i,
        tokens |-> tokens, can_start_number |-> can_start_number]

\* _convert_numbers with _dozenal_number_to_decimal: the first literal the
\* converter rejects raises
convert_numbers(tokens0, P) ==
  Let1(tokens0, LAMBDA tokens :
    Fold(LAMBDA st, i :
           IF st.err # "" THEN st
           ELSE IF tokens[i].kind # "number"
           THEN [err |-> "", converted |-> Append(st.converted, tokens[i])]
           ELSE Let1(dozenal_to_decimal(tokens[i].value, P), LAMBDA raw :
                  IF raw.err # "" THEN [err |-> raw.err, converted |-> <<>>]
                  ELSE [err |-> "",
                        converted |-> Append(st.converted,
                                             [tokens[i] EXCEPT !.num = raw.val.num])]),
         [err |-> "", converted |-> <<>>], 1, Len(tokens)))

Top(stack) == stack[Len(stack)]

Pop(stack) == SubSeq(stack, 1, Len(stack) - 1)

\* a variant of the while loop for an operator that leaves operators of the
\* same precedence on the stack
RECURSIVE pop_operators_higher(_, _, _)
pop_operators_higher(operators, output, value) ==
  IF /\ operators # <<>>
     /\ Top(operators).kind = "operator"
     /\ PRECEDENCE(Top(operators).value[1]) > PRECEDENCE(value[1])
  THEN pop_operators_higher(Pop(operators), Append(output, Top(operators)), value)
  ELSE [output |-> output, operators |-> operators]

\* the while loop of _to_postfix for an operator: operators of the same or a
\* higher precedence on top of the stack go to the output
RECURSIVE pop_operators(_, _, _)
pop_operators(operators, output, value) ==
  IF /\ operators # <<>>
     /\ Top(operators).kind = "operator"
     /\ PRECEDENCE(Top(operators).value[1]) >= PRECEDENCE(value[1])
  THEN pop_operators(Pop(operators), Append(output, Top(operators)), value)
  ELSE [output |-> output, operators |-> operators]

\* the while loop of _to_postfix for a right parenthesis
RECURSIVE pop_to_lparen(_, _)
pop_to_lparen(operators, output) ==
  IF operators # <<>> /\ Top(operators).kind # "lparen"
  THEN pop_to_lparen(Pop(operators), Append(output, Top(operators)))
  ELSE [output |-> output, operators |-> operators]

\* a variant of the last loop that lets a parenthesis left on the stack pass
RECURSIVE drain_unchecked(_, _)
drain_unchecked(operators, output) ==
  IF operators = <<>> THEN [err |-> "", output |-> output]
  ELSE drain_unchecked(Pop(operators), Append(output, Top(operators)))

\* the last while loop of _to_postfix
RECURSIVE drain(_, _)
drain(operators, output) ==
  IF operators = <<>> THEN [err |-> "", output |-> output]
  ELSE IF Top(operators).kind \in {"lparen", "rparen"}
  THEN [err |-> "ValueError: mismatched parentheses", output |-> <<>>]
  ELSE drain(Pop(operators), Append(output, Top(operators)))

\* one iteration of the for loop of _to_postfix
postfix_step(st, tok) ==
  IF st.err # "" THEN st
  ELSE IF tok.kind = "number" THEN [st EXCEPT !.output = Append(st.output, tok)]
  ELSE IF tok.kind = "operator"
  THEN Let1(pop_operators(st.operators, st.output, tok.value), LAMBDA r :
         [err |-> "", output |-> r.output, operators |-> Append(r.operators, tok)])
  ELSE IF tok.kind = "lparen" THEN [st EXCEPT !.operators = Append(st.operators, tok)]
  ELSE Let1(pop_to_lparen(st.operators, st.output), LAMBDA r :
         IF r.operators = <<>>
         THEN [err |-> "ValueError: mismatched parentheses", output |-> <<>>, operators |-> <<>>]
         ELSE [err |-> "", output |-> r.output, operators |-> Pop(r.operators)])

\* the locals of _to_postfix after the for loop has processed n tokens
postfix_loop(tokens0, n) ==
  Let1(tokens0, LAMBDA tokens :
    Fold(LAMBDA st, i : postfix_step(st, tokens[i]),
         [err |-> "", output |-> <<>>, operators |-> <<>>], 1, n))

to_postfix(tokens0) ==
  Let1(tokens0, LAMBDA tokens :
    Let1(Fold(LAMBDA st, i : postfix_step(st, tokens[i]),
              [err |-> "", output |-> <<>>, operators |-> <<>>], 1, Len(tokens)),
         LAMBDA st :
           IF st.err # "" THEN [err |-> st.err, output |-> <<>>]
           ELSE drain(st.operators, st.output)))

\* a variant that takes the first popped value as the left operand
apply_operator_swapped(op, left, right, P) ==
  IF op = "+" THEN [err |-> "", val |-> DecAdd(right, left, P)]
  ELSE IF op = "-" THEN [err |-> "", val |-> DecSub(right, left, P)]
  ELSE IF op = "*" THEN [err |-> "", val |-> DecMul(right, left, P)]
  ELSE IF ~DecIsZero(left) THEN [err |-> "", val |-> DecDiv(right, left, P)]
  ELSE IF DecIsZero(right) THEN [err |-> "decimal.InvalidOperation", val |-> DecZero]
  ELSE [err |-> "decimal.DivisionByZero", val |-> DecZero]

\* left op right on Decimals; dividing by zero raises in decimal
apply_operator(op, left, right, P) ==
  IF op = "+" THEN [err |-> "", val |-> DecAdd(left, right, P)]
  ELSE IF op = "-" THEN [err |-> "", val |-> DecSub(left, right, P)]
  ELSE IF op = "*" THEN [err |-> "", val |-> DecMul(left, right, P)]
  ELSE IF ~DecIsZero(right) THEN [err |-> "", val |-> DecDiv(left, right, P)]
  ELSE IF DecIsZero(left) THEN [err |-> "decimal.InvalidOperation", val |-> DecZero]
  ELSE [err |-> "decimal.DivisionByZero", val |-> DecZero]

\* one iteration of the for loop of _evaluate_postfix
evaluate_step(st, tok, P) ==
  IF st.err # "" THEN st
  ELSE IF tok.kind = "number" THEN [st EXCEPT !.stack = Append(st.stack, tok.num)]
  ELSE IF Len(st.stack) < 2 THEN [err |-> "ValueError: incomplete expression", stack |-> <<>>]
  ELSE Let1(apply_operator(tok.value[1], st.stack[Len(st.stack) - 1], Top(st.stack), P),
            LAMBDA r :
              IF r.err # "" THEN [err |-> r.err, stack |-> <<>>]
              ELSE [err |-> "", stack |-> Append(Pop(Pop(st.stack)), r.val)])

evaluate_postfix(postfix0, P) ==
  Let1(postfix0, LAMBDA postfix :
    Let1(Fold(LAMBDA st, i : evaluate_step(st, postfix[i], P),
              [err |-> "", stack |-> <<>>], 1, Len(postfix)),
         LAMBDA st :
           IF st.err # "" THEN [err |-> st.err, val |-> DecZero]
           ELSE IF Len(st.stack) # 1
           THEN [err |-> "ValueError: expression did not reduce to single value",
                 val |-> DecZero]
           ELSE [err |-> "", val |-> st.stack[1]]))

Raised(err, P) == [err |-> err, decimal |-> DecZero, dozenal |-> <<>>, prec |-> P]

\* a variant of calculate's stages that renders the result without a fraction
evaluate_whole(expr, frac_precision, P) ==
  Let1(tokenize(expr), LAMBDA t :
    IF t.err # "" THEN Raised(t.err, P)
    ELSE Let1(convert_numbers(t.tokens, P), LAMBDA c :
      IF c.err # "" THEN Raised(c.err, P)
      ELSE Let1(to_postfix(c.converted), LAMBDA f :
        IF f.err # "" THEN Raised(f.err, P)
        ELSE Let1(evaluate_postfix(f.output, P), LAMBDA result :
          IF result.err # "" THEN Raised(result.err, P)
          ELSE Let1(decimal_to_dozenal(DecimalValue(result.val), 0, P),
                    LAMBDA dozenal_value :
                      IF dozenal_value.err # "" THEN Raised(dozenal_value.err, P)
                      ELSE [err |-> "", decimal |-> result.val,
                            dozenal |-> dozenal_value.str, prec |-> P])))))

\* calculate after the context precision P is set: each stage either raises
\* or hands its result to the next
evaluate(expr, frac_precision, P) ==
  Let1(tokenize(expr), LAMBDA t :
    IF t.err # "" THEN Raised(t.err, P)
    ELSE Let1(convert_numbers(t.tokens, P), LAMBDA c :
      IF c.err # "" THEN Raised(c.err, P)
      ELSE Let1(to_postfix(c.converted), LAMBDA f :
        IF f.err # "" THEN Raised(f.err, P)
        ELSE Let1(evaluate_postfix(f.output, P), LAMBDA result :
          IF result.err # "" THEN Raised(result.err, P)
          ELSE Let1(decimal_to_dozenal(DecimalValue(result.val), frac_precision, P),
                    LAMBDA dozenal_value :
                      IF dozenal_value.err # "" THEN Raised(dozenal_value.err, P)
                      ELSE [err |-> "", decimal |-> result.val,
                            dozenal |-> dozenal_value.str, prec |-> P])))))

\* calculate(expression, frac_precision) called with the context precision P0
calculate(expression, frac_precision, P0) ==
  Let1(upper(strip(expression)), LAMBDA expr :
    IF expr = <<>> THEN Raised("ValueError: expression is empty", P0)
    ELSE IF frac_precision < 0
    THEN Raised("ValueError: frac_precision must be non-negative", P0)
    ELSE evaluate(expr, frac_precision, ContextPrec(frac_precision)))

(***************************************************************************)
(* The program as a state machine.  The only state that outlives a call is *)
(* the precision of the ambient decimal context, getcontext().prec, which  *)
(* decimal_to_dozenal and calculate set and dozenal_to_decimal reads.  A   *)
(* caller makes a call from "idle" (pc = "done"), may feed a converter's   *)
(* result to the opposite converter (pc = "back"), and returns to "idle".  *)
(* The while loop of _tokenize is also taken one iteration at a time       *)
(* (pc = "tokenize"), its locals in frame.                                 *)
(***************************************************************************)
VARIABLES
  prec,   \* getcontext().prec
  pc,     \* "idle", "done", "back", "tokenize"
  call,   \* the call made: [fn, value, s, p]
  ret,    \* its outcome: [err, str, val]; err = "" when it returned
  back,   \* the outcome of the opposite conversion of ret: [p, err, str, val]
  frame   \* the calculator's locals: [i, tokens, can_start_number, postfix]

vars == <<prec, pc, call, ret, back, frame>>

\* bounds of the inputs
MaxInt == 150
MaxLen == 3
MaxFrac == 3
MaxCoef == 40
MaxScale == 2
MaxNum == 6
MaxLeaves == 3
MaxText == 4
MaxTokens == 4
WidePrec == 10

\* the precision of decimal's default context
DefaultPrec == 28

Precisions == (-1)..MaxFrac

\* the precisions given to calculate
CalcPrecisions == {-1, 0, MaxFrac}

Chars == {"0", "1", "T", "E", "t", "e", "G", ".", "-", " "}

Strings == UNION {[1..n -> Chars] : n \in 0..MaxLen}

Ints == {IntValue(DecFromInt(n)) : n \in (-MaxInt)..MaxInt}

Decimals ==
  {DecimalValue(DecNorm(neg, NatFromInt(m), -j)) :
     m \in 0..MaxCoef, j \in 0..MaxScale, neg \in BOOLEAN}

Denominators == {1, 2, 3, 4, 12, 144}

Floats == {FloatValue(n, d) : n \in (-MaxNum)..MaxNum, d \in Denominators}

\* the expressions given to calculate: number literals joined by operators,
\* with at most one parenthesised group, bare or behind a sign
Literals == {<<"2">>, <<"-", "3">>}

Operators == {"+", "-", "*", "/"}

RECURSIVE Flat(_)
Flat(n) ==
  IF n = 1 THEN Literals
  ELSE {e \o <<o>> \o l : e \in Flat(n - 1), o \in Operators, l \in Literals}

Groups(n) == {sg \o <<"(">> \o e \o <<")">> : sg \in {<<>>, <<"-">>, <<"+">>}, e \in Flat(n)}

Before(n) == IF n = 0 THEN {<<>>} ELSE {e \o <<o>> : e \in Flat(n), o \in Operators}

After(n) == IF n = 0 THEN {<<>>} ELSE {<<o>> \o e : o \in Operators, e \in Flat(n)}

\* how many literals stand before, inside and after the group
Shapes ==
  {sh \in (0..MaxLeaves) \X (1..MaxLeaves) \X (0..MaxLeaves) :
     sh[1] + sh[2] + sh[3] <= MaxLeaves}

Expressions ==
  UNION ({Flat(n) : n \in 1..MaxLeaves}
         \cup {{b \o g \o a : b \in Before(sh[1]), g \in Groups(sh[2]), a \in After(sh[3])} :
                 sh \in Shapes})

\* the texts given to calculate: every short string over the characters of an
\* expression, and two literals with two operators between them
TextChars == {"1", "+", "-", "*", "(", ")", ".", " "}

TextLiterals == Literals \cup {<<"1">>, <<"1", ".">>}

OperatorPairs ==
  {a \o <<o1, o2>> \o b : a \in TextLiterals, o1 \in Operators, o2 \in Operators, b \in TextLiterals}

Texts == UNION {[1..n -> TextChars] : n \in 0..MaxText} \cup OperatorPairs

\* converted number tokens
Number(n) == [kind |-> "number", value |-> <<>>, num |-> DecFromInt(n)]

\* the token sequences given to _to_postfix
TokenKinds ==
  {Number(2), Number(-3), Token("operator", <<"+">>), Token("operator", <<"*">>),
   Token("lparen", <<"(">>), Token("rparen", <<")">>)}

TokenSeqs == UNION {[1..n -> TokenKinds] : n \in 0..MaxTokens}

\* the postfix sequences given to _evaluate_postfix
PostfixKinds ==
  {Number(2), Number(-3), Number(0)} \cup {Token("operator", <<o>>) : o \in Operators}

PostfixSeqs == UNION {[1..n -> PostfixKinds] : n \in 0..MaxTokens}

\* Decimals whose coefficient fills the default context: 0.ddd...d
Repeating ==
  {DecimalValue([neg |-> FALSE, c |-> [i \in 1..DefaultPrec |-> d], e |-> -DefaultPrec]) :
     d \in {1, 3, 9}}

NoCall == [fn |-> "", value |-> NoValue, s |-> <<>>, p |-> 0]

NoResult == [err |-> "", str |-> <<>>, val |-> NoValue]

NoBack == [p |-> 0, err |-> "", str |-> <<>>, val |-> NoValue]

NoFrame == [i |-> 0, tokens |-> <<>>, can_start_number |-> FALSE, postfix |-> <<>>]

Init ==
  /\ prec = DefaultPrec
  /\ pc = "idle"
  /\ call = NoCall
  /\ ret = NoResult
  /\ back = NoBack
  /\ frame = NoFrame

\* the caller holds the outcome r of decimal_to_dozenal(value, p)
Rendered(value, p, r) ==
  /\ ret' = [err |-> r.err, str |-> r.str, val |-> NoValue]
  /\ prec' = r.prec
  /\ call' = [fn |-> "decimal_to_dozenal", value |-> value, s |-> <<>>, p |-> p]
  /\ pc' = "done"
  /\ back' = NoBack
  /\ frame' = NoFrame

\* decimal_to_dozenal(value, frac_precision) for an int
DecimalToDozenalInt ==
  \E value \in Ints, p \in Precisions :
    /\ pc = "idle"
    /\ Rendered(value, p, decimal_to_dozenal(value, p, prec))

\* decimal_to_dozenal(value, frac_precision) for a Decimal
DecimalToDozenalDecimal ==
  \E value \in Decimals, p \in Precisions :
    /\ pc = "idle"
    /\ Rendered(value, p, decimal_to_dozenal(value, p, prec))

\* decimal_to_dozenal(value, frac_precision) for a float
DecimalToDozenalFloat ==
  \E value \in Floats, p \in Precisions :
    /\ pc = "idle"
    /\ Rendered(value, p, decimal_to_dozenal(value, p, prec))

\* dozenal_to_decimal(s)
DozenalToDecimal ==
  \E s \in Strings :
    /\ pc = "idle"
    /\ LET r == dozenal_to_decimal(s, prec)
       IN  ret' = [err |-> r.err, str |-> <<>>, val |-> r.val]
    /\ call' = [fn |-> "dozenal_to_decimal", value |-> NoValue, s |-> s, p |-> 0]
    /\ pc' = "done"
    /\ UNCHANGED <<prec, back, frame>>

\* calculate(expression, frac_precision)
Calculate ==
  \E expression \in Expressions, p \in CalcPrecisions :
    /\ pc = "idle"
    /\ LET r == calculate(expression, p, prec)
       IN  /\ ret' = [err |-> r.err, str |-> r.dozenal,
                      val |-> IF r.err = "" THEN DecimalValue(r.decimal) ELSE NoValue]
           /\ prec' = r.prec
    /\ call' = [fn |-> "calculate", value |-> NoValue, s |-> expression, p |-> p]
    /\ pc' = "done"
    /\ back' = NoBack
    /\ frame' = NoFrame

\* the caller parses the string decimal_to_dozenal returned
ParseBack ==
  /\ pc = "done"
  /\ call.fn = "decimal_to_dozenal"
  /\ ret.err = ""
  /\ LET r == dozenal_to_decimal(ret.str, prec)
     IN  back' = [p |-> 0, err |-> r.err, str |-> <<>>, val |-> r.val]
  /\ pc' = "back"
  /\ UNCHANGED <<prec, call, ret, frame>>

\* the caller renders the value dozenal_to_decimal returned
RenderBack ==
  \E p \in 0..MaxFrac :
    /\ pc = "done"
    /\ call.fn = "dozenal_to_decimal"
    /\ ret.err = ""
    /\ LET r == decimal_to_dozenal(ret.val, p, prec)
       IN  /\ back' = [p |-> p, err |-> r.err, str |-> r.str, val |-> NoValue]
           /\ prec' = r.prec
    /\ pc' = "back"
    /\ UNCHANGED <<call, ret, frame>>

\* the caller drops the results; the decimal context stays as the calls left it
Return ==
  /\ pc \in {"done", "back"}
  /\ pc' = "idle"
  /\ call' = NoCall
  /\ ret' = NoResult
  /\ back' = NoBack
  /\ frame' = NoFrame
  /\ UNCHANGED prec

\* calculate(expression, frac_precision) for a text that need not be well formed
CalculateText ==
  \E expression \in Texts :
    /\ pc = "idle"
    /\ LET r == calculate(expression, MaxFrac, prec)
       IN  /\ ret' = [err |-> r.err, str |-> r.dozenal,
                      val |-> IF r.err = "" THEN DecimalValue(r.decimal) ELSE NoValue]
           /\ prec' = r.prec
    /\ call' = [fn |-> "calculate", value |-> NoValue, s |-> expression, p |-> MaxFrac]
    /\ pc' = "done"
    /\ back' = NoBack
    /\ frame' = NoFrame

\* calculate calls _tokenize(expr) with the trimmed, upper-cased expression
TokenizeCall ==
  \E expression \in Texts :
    /\ pc = "idle"
    /\ upper(strip(expression)) # <<>>
    /\ call' = [fn |-> "tokenize", value |-> NoValue, s |-> upper(strip(expression)), p |-> 0]
    /\ frame' = [NoFrame EXCEPT !.i = 1, !.can_start_number = TRUE]
    /\ pc' = "tokenize"
    /\ ret' = NoResult
    /\ back' = NoBack
    /\ UNCHANGED prec

\* one iteration of the while loop of _tokenize; a raise ends the call
TokenizeStep ==
  /\ pc = "tokenize"
  /\ frame.i <= Len(call.s)
  /\ LET st == tokenize_step(call.s, frame.i, frame.tokens, frame.can_start_number)
     IN  IF st.err # ""
         THEN /\ ret' = [ret EXCEPT !.err = st.err]
              /\ frame' = NoFrame
              /\ pc' = "done"
         ELSE /\ frame' = [frame EXCEPT !.i = st.i, !.tokens = st.tokens,
                                        !.can_start_number = st.can_start_number]
              /\ UNCHANGED <<ret, pc>>
  /\ UNCHANGED <<prec, call, back>>

\* the loop of _tokenize ends: return tokens
TokenizeReturn ==
  /\ pc = "tokenize"
  /\ frame.i > Len(call.s)
  /\ pc' = "done"
  /\ UNCHANGED <<prec, call, ret, back, frame>>

\* _to_postfix(tokens)
ToPostfix ==
  \E tokens \in TokenSeqs :
    /\ pc = "idle"
    /\ LET r == to_postfix(tokens)
       IN  /\ ret' = [NoResult EXCEPT !.err = r.err]
           /\ frame' = [NoFrame EXCEPT !.tokens = tokens, !.postfix = r.output]
    /\ call' = [NoCall EXCEPT !.fn = "to_postfix"]
    /\ pc' = "done"
    /\ back' = NoBack
    /\ UNCHANGED prec

\* _evaluate_postfix(postfix)
EvaluatePostfix ==
  \E postfix \in PostfixSeqs :
    /\ pc = "idle"
    /\ LET r == evaluate_postfix(postfix, prec)
       IN  ret' = [err |-> r.err, str |-> <<>>,
                   val |-> IF r.err = "" THEN DecimalValue(r.val) ELSE NoValue]
    /\ frame' = [NoFrame EXCEPT !.postfix = postfix]
    /\ call' = [NoCall EXCEPT !.fn = "evaluate_postfix"]
    /\ pc' = "done"
    /\ back' = NoBack
    /\ UNCHANGED prec

\* decimal_to_dozenal(value, frac_precision) for a Decimal of full length, at
\* a precision that keeps the default context and at one that widens it
DecimalToDozenalRepeating ==
  \E value \in Repeating, p \in {1, WidePrec} :
    /\ pc = "idle"
    /\ Rendered(value, p, decimal_to_dozenal(value, p, prec))

\* the converter alone
NextConverter ==
  \/ DecimalToDozenalInt
  \/ DecimalToDozenalDecimal
  \/ DecimalToDozenalFloat
  \/ DozenalToDecimal
  \/ ParseBack
  \/ RenderBack
  \/ Return

SpecConverter == Init /\ [][NextConverter]_vars

\* the calculator alone
NextCalculator ==
  \/ Calculate
  \/ Return

SpecCalculator == Init /\ [][NextCalculator]_vars

\* the tokenizer, one iteration of its loop at a time
NextTokenizer ==
  \/ TokenizeCall
  \/ TokenizeStep
  \/ TokenizeReturn
  \/ Return

SpecTokenizer == Init /\ [][NextTokenizer]_vars

\* the calculator and its stages on texts and token sequences of any form
NextParser ==
  \/ CalculateText
  \/ ToPostfix
  \/ EvaluatePostfix
  \/ Return

SpecParser == Init /\ [][NextParser]_vars

\* calls that widen the decimal context, and the parser that reads it
NextContext ==
  \/ DecimalToDozenalRepeating
  \/ DozenalToDecimal
  \/ Return

SpecContext == Init /\ [][NextContext]_vars

Next ==
  \/ NextConverter
  \/ Calculate

Spec == Init /\ [][Next]_vars

(***************************************************************************)
(* Properties of the converter.                                            *)
(***************************************************************************)
\* decimal_to_dozenal(call.value, call.p) has returned or raised
AfterRender == pc \in {"done", "back"} /\ call.fn = "decimal_to_dozenal"

\* dozenal_to_decimal(call.s) has returned or raised
AfterParse == pc \in {"done", "back"} /\ call.fn = "dozenal_to_decimal"

\* s without its leading '-'
Unsigned(s) == IF s # <<>> /\ Head(s) = "-" THEN Tail(s) ELSE s

\* the digits of an unsigned rendering before and after its point
IntDigits(u) == IF Find(u, ".") = 0 THEN u ELSE SubSeq(u, 1, Find(u, ".") - 1)

FracDigits(u) == IF Find(u, ".") = 0 THEN <<>> ELSE SubSeq(u, Find(u, ".") + 1, Len(u))

\* C1: for every integer n and every fracPrecision p >= 0,
\* decimal_to_dozenal(n, p) returns a string, and dozenal_to_decimal of that
\* string returns exactly n.
C1_IntegerRoundTrip ==
  (AfterRender /\ call.value.kind = "int" /\ call.p >= 0) =>
    /\ ret.err = ""
    /\ pc = "back" => (back.err = "" /\ back.val = call.value)

C1_Witness ==
  /\ pc = "back"
  /\ call.fn = "decimal_to_dozenal"
  /\ call.value = IntValue(DecFromInt(-146))
  /\ call.p = 2
  /\ ret.str = <<"-", "1", "0", "2">>
  /\ back.val = IntValue(DecFromInt(-146))

\* a canonical dozenal string with a fraction: an optional '-', an integer
\* part without superfluous leading zeros, a point, and at least one
\* fractional digit, the last one not 0
Canonical(s) ==
  LET u == Unsigned(s)
      k == Find(u, ".")
  IN  /\ k >= 2
      /\ k < Len(u)
      /\ \A i \in 1..Len(u) : i # k => InDigits(u[i])
      /\ k > 2 => u[1] # "0"
      /\ u[Len(u)] # "0"

\* C2: for every canonical dozenal string s with k >= 1 fractional digits and
\* every fracPrecision p >= k, decimal_to_dozenal(dozenal_to_decimal(s), p)
\* returns exactly s.
C2_FractionRoundTrip ==
  (/\ pc = "back"
   /\ call.fn = "dozenal_to_decimal"
   /\ Canonical(call.s)
   /\ back.p >= Len(FracDigits(Unsigned(call.s)))) =>
    (back.err = "" /\ back.str = call.s)

\* 12^p as a digit sequence
Pow12(p) == NatFromInt(12 ^ p)

\* floor(|x| * 12^p) of a Decimal x
FloorScaled(x, p) ==
  IF x.e >= 0 THEN NatMul(x.c \o Zeros(x.e), Pow12(p))
  ELSE NatDivMod(NatMul(x.c, Pow12(p)), <<1>> \o Zeros(-x.e)).q

\* the number that base-12 digits denote
Base12(ds) ==
  Fold(LAMBDA acc, i : NatAdd(NatMulSmall(acc, 12), NatFromInt(DigitIndex(ds[i]))),
       <<>>, 1, Len(ds))

\* the magnitude that the rendering str denotes, times 12^p
StrScaled(str, p) ==
  LET u == Unsigned(str)
  IN  Base12(IntDigits(u) \o FracDigits(u) \o [i \in 1..(p - Len(FracDigits(u))) |-> "0"])

\* the rendering str of x at precision p has at most p fractional digits and
\* denotes floor(|x| * 12^p) / 12^p
Truncated(x, p, err, str) ==
  /\ err = ""
  /\ Len(FracDigits(Unsigned(str))) <= p
  /\ StrScaled(str, p) = FloorScaled(x, p)

\* C5: for every exact value v (an int, a Decimal, a value dozenal_to_decimal
\* returned) and every fracPrecision p >= 0, decimal_to_dozenal(v, p) emits at
\* most p fractional digits and denotes the magnitude floor(|v| * 12^p) / 12^p.
C5_Truncation ==
  /\ (AfterRender /\ call.value.kind \in {"int", "Decimal"} /\ call.p >= 0) =>
       Truncated(call.value.num, call.p, ret.err, ret.str)
  /\ (pc = "back" /\ call.fn = "dozenal_to_decimal") =>
       Truncated(ret.val.num, back.p, back.err, back.str)

\* whether value * 12^k is an integer
TerminatesAt(value, k) ==
  IF value.kind = "float" THEN (value.n * (12 ^ k)) % value.d = 0
  ELSE \/ value.num.e >= 0
       \/ (NatToInt(value.num.c) * (12 ^ k)) % (10 ^ (-value.num.e)) = 0

Terminating(value) == \E k \in 0..MaxFrac : TerminatesAt(value, k)

\* the number of fractional digits of the base-12 expansion of value
ExpansionLength(value) ==
  CHOOSE k \in 0..MaxFrac :
    TerminatesAt(value, k) /\ \A j \in 0..(k - 1) : ~TerminatesAt(value, j)

\* C6: if the base-12 expansion of |v| terminates after k fractional digits,
\* then for every p >= k decimal_to_dozenal(v, p) equals
\* decimal_to_dozenal(v, k), and when k = 0 or p = 0 the output has no point.
C6_ExactTermination ==
  (/\ pc = "done"
   /\ call.fn = "decimal_to_dozenal"
   /\ call.p >= 0
   /\ Terminating(call.value)) =>
    /\ ret.err = ""
    /\ call.p >= ExpansionLength(call.value) =>
         ret.str = decimal_to_dozenal(call.value, ExpansionLength(call.value), prec).str
    /\ (ExpansionLength(call.value) = 0 \/ call.p = 0) => Find(ret.str, ".") = 0

Negated(value) ==
  IF value.kind = "float" THEN [value EXCEPT !.n = -value.n]
  ELSE [value EXCEPT !.num = DecNeg(value.num)]

IsPositive(value) ==
  IF value.kind = "float" THEN value.n > 0
  ELSE value.num.c # <<>> /\ ~value.num.neg

IsZero(value) ==
  IF value.kind = "float" THEN value.n = 0 ELSE value.num.c = <<>>

\* for v > 0 and p >= 0 decimal_to_dozenal(-v, p) is '-' followed by
\* decimal_to_dozenal(v, p), and zero renders as '0'
RenderSymmetric ==
  (pc = "done" /\ call.fn = "decimal_to_dozenal" /\ call.p >= 0) =>
    /\ ret.err = ""
    /\ IsPositive(call.value) =>
         decimal_to_dozenal(Negated(call.value), call.p, prec).str = <<"-">> \o ret.str
    /\ IsZero(call.value) => ret.str = <<"0">>

\* dozenal_to_decimal('-' + s) is the negation of val = dozenal_to_decimal(s)
ParseSymmetric(s, val) ==
  LET r == dozenal_to_decimal(<<"-">> \o s, prec)
  IN  r.err = "" /\ r.val.kind = val.kind /\ r.val.num = DecNeg(val.num)

\* C7 as stated: decimal_to_dozenal is sign symmetric, and for every string s
\* that dozenal_to_decimal accepts and that has no leading '-',
\* dozenal_to_decimal('-' + s) equals -dozenal_to_decimal(s).
C7_SignSymmetry ==
  /\ RenderSymmetric
  /\ (pc = "done" /\ call.fn = "dozenal_to_decimal" /\ ret.err = "" /\ Head(call.s) # "-") =>
       ParseSymmetric(call.s, ret.val)

\* C7 amended: decimal_to_dozenal is sign symmetric, and for every string s
\* that dozenal_to_decimal accepts and that starts with neither '-' nor
\* white space, dozenal_to_decimal('-' + s) equals -dozenal_to_decimal(s).
C7_SignSymmetryNoLeadingSpace ==
  /\ RenderSymmetric
  /\ (/\ pc = "done"
      /\ call.fn = "dozenal_to_decimal"
      /\ ret.err = ""
      /\ ~(Head(call.s) = "-" \/ isspace(Head(call.s)))) =>
       ParseSymmetric(call.s, ret.val)

C7_Witness ==
  /\ pc = "done"
  /\ call.fn = "dozenal_to_decimal"
  /\ call.s = <<"1", "T">>
  /\ ret.val = IntValue(DecFromInt(22))
  /\ dozenal_to_decimal(<<"-", "1", "T">>, prec).val = IntValue(DecFromInt(-22))

\* after trimming and upper-casing the string is empty, or has more than one
\* point, or has a character that is neither a digit of the alphabet nor the
\* one leading '-' nor a point
Malformed(s) ==
  LET t == upper(strip(s))
      u == Unsigned(t)
  IN  \/ t = <<>>
      \/ Cardinality({i \in 1..Len(u) : u[i] = "."}) > 1
      \/ \E i \in 1..Len(u) : u[i] # "." /\ ~InDigits(u[i])

\* C8: dozenal_to_decimal fails, returning no value, if and only if the
\* string is malformed: empty after trimming, more than one '.', or a
\* character other than the 12 digits apart from one leading '-' and one '.'.
C8_RejectsExactlyMalformed ==
  AfterParse =>
    /\ ret.err # "" <=> Malformed(call.s)
    /\ ret.err # "" => ret.val = NoValue

C8_Witness ==
  /\ pc = "done"
  /\ call.fn = "dozenal_to_decimal"
  /\ call.s = <<".", "1", ".">>
  /\ ret.err = "ValueError: invalid dozenal format"
  /\ ret.val = NoValue

\* the value of a digit of the alphabet in either case
DigitValues ==
  [ch \in {"0", "1", "2", "3", "4", "5", "6", "7", "8", "9", "T", "E", "t", "e"} |->
     CASE ch = "0" -> 0 [] ch = "1" -> 1 [] ch = "2" -> 2 [] ch = "3" -> 3
       [] ch = "4" -> 4 [] ch = "5" -> 5 [] ch = "6" -> 6 [] ch = "7" -> 7
       [] ch = "8" -> 8 [] ch = "9" -> 9 [] ch \in {"T", "t"} -> 10
       [] ch \in {"E", "e"} -> 11]

\* the sum of value(d_i) * 12^(n-i) over the digits d_1..d_n of s from i on
RECURSIVE PositionalSum(_, _)
PositionalSum(s, i) ==
  IF i > Len(s) THEN 0
  ELSE DigitValues[s[i]] * (12 ^ (Len(s) - i)) + PositionalSum(s, i + 1)

\* C9: for every digit string d_1..d_n over 0123456789TE in upper or lower
\* case, dozenal_to_decimal returns the sum of value(d_i) * 12^(n-i).
C9_PositionalDecode ==
  (AfterParse /\ call.s # <<>> /\ \A i \in 1..Len(call.s) : call.s[i] \in DOMAIN DigitValues) =>
    /\ ret.err = ""
    /\ ret.val = IntValue(DecFromInt(PositionalSum(call.s, 1)))

C9_Witness ==
  /\ pc = "done"
  /\ call.fn = "dozenal_to_decimal"
  /\ call.s = <<"t", "E", "e">>
  /\ ret.val = IntValue(DecFromInt(1583))

\* C10: decimal_to_dozenal and calculate fail and return no string when
\* fracPrecision < 0.
C10_NegativePrecisionRejected ==
  (pc = "done" /\ call.fn \in {"decimal_to_dozenal", "calculate"} /\ call.p < 0) =>
    (ret.err # "" /\ ret.str = <<>>)

(***************************************************************************)
(* Properties of the calculator.                                           *)
(***************************************************************************)
\* The reference evaluator reads the expression by the grammar
\*   expr   ::= term   { ("+" | "-") term }
\*   factor ::= literal | "(" expr ")" | ("+" | "-") "(" expr ")"
\* where a term is factors joined by "*" and "/", and computes with the
\* Decimal arithmetic of the context.
AfterCalculate == pc = "done" /\ call.fn = "calculate"

\* a number may start at position i of s
MayStartNumber(s, i) == i = 1 \/ s[i - 1] \in Operators \cup {"("}

\* s has a sign in front of a parenthesis where a number may start
HasSignedGroup(s) ==
  \E i \in 1..(Len(s) - 1) : s[i] \in {"+", "-"} /\ s[i + 1] = "(" /\ MayStartNumber(s, i)

RefFail == [ok |-> FALSE, v |-> DecZero, i |-> 0]

\* the end of the literal that starts at i: an optional '-', digits and points
RefLiteralEnd(s, i) ==
  LET j == IF s[i] = "-" THEN i + 1 ELSE i
  IN  CHOOSE e \in j..(Len(s) + 1) :
        /\ \A k \in j..(e - 1) : InDigits(s[k]) \/ s[k] = "."
        /\ e = Len(s) + 1 \/ ~(InDigits(s[e]) \/ s[e] = ".")

RECURSIVE RefExpr(_, _, _), RefExprRest(_, _, _, _), RefTerm(_, _, _),
          RefTermRest(_, _, _, _), RefFactor(_, _, _)

RefFactor(s, i, P) ==
  IF i > Len(s) THEN RefFail
  ELSE IF s[i] = "("
  THEN Let1(RefExpr(s, i + 1, P), LAMBDA r :
         IF r.ok /\ r.i <= Len(s) /\ s[r.i] = ")" THEN [r EXCEPT !.i = r.i + 1] ELSE RefFail)
  ELSE IF s[i] \in {"+", "-"} /\ i < Len(s) /\ s[i + 1] = "("
  THEN Let1(RefFactor(s, i + 1, P), LAMBDA r :
         IF r.ok /\ s[i] = "-" THEN [r EXCEPT !.v = DecNeg(r.v)] ELSE r)
  ELSE Let1(RefLiteralEnd(s, i), LAMBDA e :
         Let1(dozenal_to_decimal(SubSeq(s, i, e - 1), P), LAMBDA lit :
           IF lit.err # "" THEN RefFail ELSE [ok |-> TRUE, v |-> lit.val.num, i |-> e]))

RefTermRest(s, i, acc, P) ==
  IF i <= Len(s) /\ s[i] \in {"*", "/"}
  THEN Let1(RefFactor(s, i + 1, P), LAMBDA r :
         IF ~r.ok \/ (s[i] = "/" /\ DecIsZero(r.v)) THEN RefFail
         ELSE RefTermRest(s, r.i,
                          IF s[i] = "*" THEN DecMul(acc, r.v, P) ELSE DecDiv(acc, r.v, P), P))
  ELSE [ok |-> TRUE, v |-> acc, i |-> i]

RefTerm(s, i, P) ==
  Let1(RefFactor(s, i, P), LAMBDA r : IF r.ok THEN RefTermRest(s, r.i, r.v, P) ELSE RefFail)

RefExprRest(s, i, acc, P) ==
  IF i <= Len(s) /\ s[i] \in {"+", "-"}
  THEN Let1(RefTerm(s, i + 1, P), LAMBDA r :
         IF ~r.ok THEN RefFail
         ELSE RefExprRest(s, r.i,
                          IF s[i] = "+" THEN DecAdd(acc, r.v, P) ELSE DecSub(acc, r.v, P), P))
  ELSE [ok |-> TRUE, v |-> acc, i |-> i]

RefExpr(s, i, P) ==
  Let1(RefTerm(s, i, P), LAMBDA r : IF r.ok THEN RefExprRest(s, r.i, r.v, P) ELSE RefFail)

\* the value of the whole of s, when it has one
RefEval(s, P) ==
  Let1(RefExpr(s, 1, P), LAMBDA r : IF r.ok /\ r.i = Len(s) + 1 THEN r ELSE RefFail)

\* calculate returned the value the reference evaluator gives, when it gives one
AgreesWithReference ==
  LET r == RefEval(call.s, ContextPrec(call.p))
  IN  r.ok => (ret.err = "" /\ ret.val = DecimalValue(r.v))

\* C3: for every well-formed expression of literals, + - * / and parentheses
\* with no sign in front of a parenthesis, calculate returns the value of the
\* reference evaluator: * and / bind tighter than + and -, equal precedence
\* groups left to right, a parenthesised group is evaluated as a unit.
C3_PrecedenceAndGrouping ==
  (AfterCalculate /\ call.p >= 0 /\ ~HasSignedGroup(call.s)) => AgreesWithReference

C3_Witness ==
  /\ AfterCalculate
  /\ call.s = <<"2", "-", "2", "*", "-", "3">>
  /\ call.p = 0
  /\ ret.val = DecimalValue(DecFromInt(8))
  /\ ret.str = <<"8">>

\* C4: where a number may start, '-' in front of a parenthesis makes calculate
\* use the negation of the group's value as the operand, and '+' the group's
\* value: calculate returns the value of the reference evaluator.
C4_SignedGroup ==
  (AfterCalculate /\ call.p >= 0 /\ HasSignedGroup(call.s)) => AgreesWithReference

(***************************************************************************)
(* Parentheses                                                             *)
(***************************************************************************)
AfterToPostfix == pc = "done" /\ call.fn = "to_postfix"

\* '(' minus ')' among the first n elements; open and close say which
\* elements are parentheses
ParenDepth(n, open(_), close(_)) ==
  Cardinality({i \in 1..n : open(i)}) - Cardinality({i \in 1..n : close(i)})

\* some prefix holds more ')' than '(', or the totals differ
UnbalancedTokens(tokens) ==
  \/ \E n \in 1..Len(tokens) :
       ParenDepth(n, LAMBDA i : tokens[i].kind = "lparen",
                     LAMBDA i : tokens[i].kind = "rparen") < 0
  \/ ParenDepth(Len(tokens), LAMBDA i : tokens[i].kind = "lparen",
                             LAMBDA i : tokens[i].kind = "rparen") # 0

UnbalancedText(s) ==
  \/ \E n \in 1..Len(s) : ParenDepth(n, LAMBDA i : s[i] = "(", LAMBDA i : s[i] = ")") < 0
  \/ ParenDepth(Len(s), LAMBDA i : s[i] = "(", LAMBDA i : s[i] = ")") # 0

\* C11: for every token sequence, _to_postfix fails with the mismatched
\* parentheses error if and only if the parentheses are unbalanced, and
\* calculate returns no result for an expression with unbalanced parentheses.
C11_MismatchedParentheses ==
  /\ AfterToPostfix =>
       /\ (ret.err = "ValueError: mismatched parentheses") <=> UnbalancedTokens(frame.tokens)
       /\ ret.err \in {"", "ValueError: mismatched parentheses"}
  /\ (AfterCalculate /\ UnbalancedText(call.s)) => (ret.err # "" /\ ret.val = NoValue)

\* ( 2 + 2 is rejected by _to_postfix, and calculate rejects (1+1
C11_Witness ==
  /\ AfterToPostfix
  /\ Len(frame.tokens) = 4
  /\ frame.tokens[1].kind = "lparen"
  /\ frame.tokens[2].kind = "number"
  /\ frame.tokens[3].kind = "operator"
  /\ frame.tokens[4].kind = "number"
  /\ ret.err = "ValueError: mismatched parentheses"

(***************************************************************************)
(* Operator sequences                                                      *)
(***************************************************************************)
\* a o1 o2 b: two literals with two adjacent operators between them, the
\* second of which is not '-'
IsOperatorSequence(s) ==
  \E a \in TextLiterals, b \in TextLiterals, o1 \in Operators, o2 \in Operators \ {"-"} :
    s = a \o <<o1, o2>> \o b

\* C12: for all literals a and b, every operator o1 and every operator o2
\* other than '-', calculate fails on a o1 o2 b and returns no result.
C12_OperatorSequencesFail ==
  (AfterCalculate /\ IsOperatorSequence(call.s)) =>
    (ret.err # "" /\ ret.val = NoValue /\ ret.str = <<>>)

\* 1++2 is rejected for the literal +2, 2*/2 for the operand '*' lacks
C12_Witness ==
  /\ AfterCalculate
  /\ call.s = <<"2", "*", "/", "2">>
  /\ ret.err = "ValueError: incomplete expression"

(***************************************************************************)
(* Call independence                                                       *)
(***************************************************************************)
\* C13: the outcome of a call is a function of its arguments only: after any
\* sequence of earlier calls, decimal_to_dozenal and dozenal_to_decimal give
\* the outcome they give as the first call of the process, where the decimal
\* context still has its default precision; no call leaves a precision
\* behind that a later call reads.
C13_CallIndependence ==
  /\ AfterParse =>
       LET r == dozenal_to_decimal(call.s, DefaultPrec)
       IN  ret.err = r.err /\ ret.val = r.val
  /\ AfterRender =>
       LET r == decimal_to_dozenal(call.value, call.p, DefaultPrec)
       IN  ret.err = r.err /\ ret.str = r.str

(***************************************************************************)
(* The two fields of a result                                              *)
(***************************************************************************)
\* whether |x| * 12^p is an integer
ScaledExact(x, p) ==
  x.e >= 0 \/ NatDivMod(NatMul(x.c, Pow12(p)), <<1>> \o Zeros(-x.e)).r = <<>>

\* the rendering str has at most p fractional digits and differs from |x| by
\* less than one unit of the p-th fractional digit: it is |x| * 12^p cut
\* down or brought up to an integer
WithinOneDigit(x, p, str) ==
  /\ Len(FracDigits(Unsigned(str))) <= p
  /\ \/ StrScaled(str, p) = FloorScaled(x, p)
     \/ /\ ~ScaledExact(x, p)
        /\ StrScaled(str, p) = NatAdd(FloorScaled(x, p), <<1>>)

AfterEvaluatePostfix == pc = "done" /\ call.fn = "evaluate_postfix"

\* numbers minus operators among the elements a..b of a postfix sequence
Net(seq, a, b) ==
  Cardinality({i \in a..b : seq[i].kind = "number"})
    - Cardinality({i \in a..b : seq[i].kind # "number"})

\* the operator at k finds fewer than two values
UnderflowAt(seq, k) == seq[k].kind # "number" /\ Net(seq, 1, k - 1) < 2

\* the first operator that finds fewer than two values, or 0
FirstUnderflow(seq) ==
  IF \E k \in 1..Len(seq) : UnderflowAt(seq, k)
  THEN CHOOSE k \in 1..Len(seq) :
         UnderflowAt(seq, k) /\ \A j \in 1..(k - 1) : ~UnderflowAt(seq, j)
  ELSE 0

\* where the operand that ends at n starts
OperandStart(seq, n) ==
  CHOOSE j \in 1..n : Net(seq, j, n) = 1 /\ \A i \in (j + 1)..n : Net(seq, i, n) # 1

\* left op right
InfixValue(op, left, right, P) ==
  IF op = "+" THEN DecAdd(left, right, P)
  ELSE IF op = "-" THEN DecSub(left, right, P)
  ELSE IF op = "*" THEN DecMul(left, right, P)
  ELSE DecDiv(left, right, P)

\* the value of the operand a..b read as a tree: its last element is its
\* operator, before it stands the right operand, and before that the left
\* one; ok is false when a division in it has a zero divisor
RECURSIVE TreeValue(_, _, _, _)
TreeValue(seq, a, b, P) ==
  IF seq[b].kind = "number" THEN [ok |-> TRUE, val |-> seq[b].num]
  ELSE Let1(OperandStart(seq, b - 1), LAMBDA j :
         Let2(TreeValue(seq, OperandStart(seq, j - 1), j - 1, P), TreeValue(seq, j, b - 1, P),
              LAMBDA left, right :
                IF ~left.ok \/ ~right.ok \/ (seq[b].value = <<"/">> /\ DecIsZero(right.val))
                THEN [ok |-> FALSE, val |-> DecZero]
                ELSE [ok |-> TRUE, val |-> InfixValue(seq[b].value[1], left.val, right.val, P)]))

\* the division at k is reached with two values, the divisor zero
ZeroDivisorAt(seq, k, P) ==
  /\ seq[k].value = <<"/">>
  /\ \A j \in 1..k : ~UnderflowAt(seq, j)
  /\ Let1(OperandStart(seq, k - 1), LAMBDA j :
       Let2(TreeValue(seq, OperandStart(seq, j - 1), j - 1, P), TreeValue(seq, j, k - 1, P),
            LAMBDA left, right : left.ok /\ right.ok /\ DecIsZero(right.val)))

ZeroDivisorReached(seq, P) == \E k \in 1..Len(seq) : ZeroDivisorAt(seq, k, P)

\* the outcome without division by zero: the incomplete expression error
\* exactly when an operator finds fewer than two values, otherwise the
\* malformed result error exactly when the stack does not end with one value,
\* otherwise the value, each operator applied to left = second popped and
\* right = first popped
StackOutcome(seq, P, err, val) ==
  /\ (err = "ValueError: incomplete expression") <=> FirstUnderflow(seq) # 0
  /\ FirstUnderflow(seq) = 0 =>
       /\ (err = "ValueError: expression did not reduce to single value")
            <=> Net(seq, 1, Len(seq)) # 1
       /\ Net(seq, 1, Len(seq)) = 1 =>
            /\ err = ""
            /\ val = DecimalValue(TreeValue(seq, 1, Len(seq), P).val)

\* C15 as stated: _evaluate_postfix fails with the incomplete expression error
\* exactly when an operator is reached with fewer than two values on the
\* stack, otherwise with the malformed result error exactly when the stack
\* does not hold one value at the end, and in all other cases returns that
\* value, each operator applied to left = second popped, right = first popped.
C15_PostfixErrors ==
  AfterEvaluatePostfix => StackOutcome(frame.postfix, prec, ret.err, ret.val)

\* C15 amended: the same, unless a division is reached with two values on
\* the stack and a zero divisor before any operator lacks a value; then, and
\* only then, the division raises the error of the decimal arithmetic.
C15_PostfixErrorsOrDivisionByZero ==
  AfterEvaluatePostfix =>
    /\ (ret.err \in {"decimal.DivisionByZero", "decimal.InvalidOperation"})
         <=> ZeroDivisorReached(frame.postfix, prec)
    /\ ~ZeroDivisorReached(frame.postfix, prec) =>
         StackOutcome(frame.postfix, prec, ret.err, ret.val)

\* 2 -3 - is 2 - (-3) = 5, and 2 2 * + lacks a value at '+'
C15_Witness ==
  /\ AfterEvaluatePostfix
  /\ frame.postfix = <<Number(2), Number(-3), Token("operator", <<"-">>)>>
  /\ ret.err = ""
  /\ ret.val = DecimalValue(DecFromInt(5))

(***************************************************************************)
(* The tokenizer                                                           *)
(***************************************************************************)
\* the loop of _tokenize is at its test, before an iteration or at its exit
AtLoopTest == pc = "tokenize"

\* C16: at the start of every iteration of the tokenizer loop,
\* can_start_number is true if and only if no token has been emitted or the
\* last emitted token is an operator or a left parenthesis, and false if and
\* only if the last emitted token is a number or a right parenthesis.
C16_FlagInvariant ==
  AtLoopTest =>
    /\ frame.can_start_number <=>
         (frame.tokens = <<>> \/ Top(frame.tokens).kind \in {"operator", "lparen"})
    /\ ~frame.can_start_number <=>
         (frame.tokens # <<>> /\ Top(frame.tokens).kind \in {"number", "rparen"})

\* in '1) 1' the loop stands after the blank: the last token is ')', no
\* number may start
C16_Witness ==
  /\ AtLoopTest
  /\ call.s = <<"1", ")", " ", "1">>
  /\ frame.i = 4
  /\ Len(frame.tokens) = 2
  /\ Top(frame.tokens).kind = "rparen"
  /\ ~frame.can_start_number

\* _tokenize has returned its token list
TokenizeReturned == pc = "done" /\ call.fn = "tokenize" /\ ret.err = ""

\* C17: in every token sequence _tokenize returns, each operator token stands
\* where a number may not start: it is immediately preceded by a number (the
\* 0 of the unary rewrite for the rewrite's sign) or a right parenthesis, so
\* no '*' or '/' at the start, after an operator or after '(' is emitted as
\* an operator token.
C17_OperatorsOnlyAfterOperand ==
  TokenizeReturned =>
    \A k \in 1..Len(frame.tokens) :
      frame.tokens[k].kind = "operator" =>
        (k > 1 /\ frame.tokens[k - 1].kind \in {"number", "rparen"})

(***************************************************************************)
(* The grammar of expressions                                              *)
(***************************************************************************)
\* the tokens a..b match E ::= Number | E Operator E | '(' E ')'
RECURSIVE Infix(_, _, _)
Infix(tokens, a, b) ==
  /\ a <= b
  /\ \/ a = b /\ tokens[a].kind = "number"
     \/ /\ tokens[a].kind = "lparen"
        /\ tokens[b].kind = "rparen"
        /\ Infix(tokens, a + 1, b - 1)
     \/ \E k \in (a + 1)..(b - 1) :
          /\ tokens[k].kind = "operator"
          /\ Infix(tokens, a, k - 1)
          /\ Infix(tokens, k + 1, b)

\* the token sequence of calculate(expression), after the unary rewrite
TokensOf(expression) == tokenize(upper(strip(expression))).tokens

\* C18: whenever calculate succeeds, its token sequence matches the grammar
\* E ::= Number | E Operator E | '(' E ')'; sequences with two adjacent
\* operands or with an operator after its operands are rejected.
C18_OnlyInfixAccepted ==
  (AfterCalculate /\ ret.err = "") =>
    Infix(TokensOf(call.s), 1, Len(TokensOf(call.s)))

(***************************************************************************)
(* The digits of the fractional loop                                       *)
(***************************************************************************)
\* C19: in the fractional loop of decimal_to_dozenal the remaining fraction
\* stays below 1, also when frac * 12 is rounded to the context precision, so
\* every digit is in 0..11 and indexes the alphabet: for no value and no
\* frac_precision >= 0 does the indexing fail.
C19_DigitsIndexAlphabet ==
  (AfterRender /\ call.p >= 0) =>
    /\ ret.err # "IndexError: string index out of range"
    /\ ret.err = "" => \A i \in 1..Len(ret.str) : ret.str[i] \in {"-", "."} \/ InDigits(ret.str[i])

(***************************************************************************)
(* Literals of the evaluator and of the converter                          *)
(***************************************************************************)
\* C20: for every string s that dozenal_to_decimal accepts, calculate(s)
\* succeeds and its decimal field equals dozenal_to_decimal(s); and every
\* literal the tokenizer accepts as a number token is accepted by
\* dozenal_to_decimal.
C20_LiteralAgreement ==
  AfterCalculate =>
    /\ LET r == dozenal_to_decimal(call.s, prec)
       IN  r.err = "" => (ret.err = "" /\ ret.val.num = r.val.num)
    /\ \A k \in 1..Len(TokensOf(call.s)) :
         TokensOf(call.s)[k].kind = "number" =>
           dozenal_to_decimal(TokensOf(call.s)[k].value, prec).err = ""

(***************************************************************************)
(* Division by zero                                                        *)
(***************************************************************************)
\* s is an infix expression in which, read as ordinary arithmetic, some '/'
\* has a right operand that evaluates to zero: the reference evaluator, which
\* fails on such a division only, has no value for it
HasZeroDivisor(s, P) ==
  /\ Infix(TokensOf(s), 1, Len(TokensOf(s)))
  /\ ~RefEval(s, P).ok

\* every divisor of the infix expression s is non-zero
AllDivisorsNonZero(s, P) ==
  /\ Infix(TokensOf(s), 1, Len(TokensOf(s)))
  /\ RefEval(s, P).ok

\* C21: for every expression in which the right operand of some '/'
\* evaluates to zero, calculate fails and returns no result; and calculate
\* never fails with a division by zero error on an expression whose every
\* divisor, read as ordinary arithmetic, is non-zero.
C21_DivisionByZero ==
  (AfterCalculate /\ call.p >= 0) =>
    /\ HasZeroDivisor(call.s, ContextPrec(call.p)) =>
         (ret.err # "" /\ ret.val = NoValue /\ ret.str = <<>>)
    /\ AllDivisorsNonZero(call.s, ContextPrec(call.p)) =>
         ret.err \notin {"decimal.DivisionByZero", "decimal.InvalidOperation"}

(***************************************************************************)
(* The operator stack and the output of _to_postfix                        *)
(***************************************************************************)
\* how tightly an operator binds
Binds(op) == IF op \in {"*", "/"} THEN 2 ELSE 1

\* neighbours on the stack that are both operators bind more tightly toward
\* the top, so no three operators lie on one another
StrictlyIncreasing(operators) ==
  /\ \A i \in 1..(Len(operators) - 1) :
       (operators[i].kind = "operator" /\ operators[i + 1].kind = "operator") =>
         Binds(operators[i].value[1]) < Binds(operators[i + 1].value[1])
  /\ \A i \in 1..(Len(operators) - 2) :
       \E j \in i..(i + 2) : operators[j].kind # "operator"

\* how often the token tok occurs in seq
Occurrences(seq, tok) == Cardinality({i \in 1..Len(seq) : seq[i] = tok})

\* output holds the numbers of tokens in their order, every operator as
\* often as tokens does, and no parenthesis
Rearranged(tokens, output) ==
  /\ SelectSeq(output, LAMBDA t : t.kind = "number")
       = SelectSeq(tokens, LAMBDA t : t.kind = "number")
  /\ \A i \in 1..Len(tokens) :
       tokens[i].kind = "operator" =>
         Occurrences(output, tokens[i]) = Occurrences(tokens, tokens[i])
  /\ \A i \in 1..Len(output) : output[i].kind \in {"number", "operator"}
  /\ Len(output) = Cardinality({i \in 1..Len(tokens) : tokens[i].kind \in {"number", "operator"}})

\* C22: after _to_postfix has processed any prefix of the tokens, operators
\* on the stack with no parenthesis between them bind strictly more tightly
\* toward the top (at most two lie above any parenthesis); when _to_postfix
\* succeeds its output holds every number in the original order, every
\* operator exactly once, and no parenthesis.
C22_StackAndOutput ==
  AfterToPostfix =>
    /\ \A n \in 0..Len(frame.tokens) :
         postfix_loop(frame.tokens, n).err = "" =>
           StrictlyIncreasing(postfix_loop(frame.tokens, n).operators)
    /\ ret.err = "" => Rearranged(frame.tokens, frame.postfix)

\* 2 + -3 * leaves '+' and '*' on the stack and comes out as 2 -3 * +
C22_Witness ==
  /\ AfterToPostfix
  /\ frame.tokens = <<Number(2), Token("operator", <<"+">>), Number(-3), Token("operator", <<"*">>)>>
  /\ postfix_loop(frame.tokens, 4).operators = <<Token("operator", <<"+">>), Token("operator", <<"*">>)>>
  /\ ret.err = ""
  /\ frame.postfix = <<Number(2), Number(-3), Token("operator", <<"*">>), Token("operator", <<"+">>)>>
====
